---- MODULE Spec2Model ----
(***************************************************************************)
(* pusher: the event loop `run` and the protocol engine `send_kernel` of   *)
(* src/src/main.rs, with the byte sources of src/src/tty.rs.               *)
(*                                                                         *)
(* Numbers wider than TLC's integers are kept as little-endian tuples of   *)
(* 16-bit limbs: a u32 is <<lo, hi>>, a u64 is <<l0, l1, l2, l3>>.         *)
(***************************************************************************)
EXTENDS Integers, Sequences, FiniteSets, TLC

VARIABLES
    pc,            \* position of the single thread of control
    num_breaks,    \* run: let mut num_breaks (main.rs:69)
    events,        \* run: tokens of the current wake-up not yet dispatched
    sk_events,     \* send_kernel: tokens of the current polling round
    round,         \* send_kernel: index of the polling round (for _ in 0..2)
    res,           \* send_kernel: the acknowledgment buffer
    kernel_size,   \* send_kernel: u32 <<lo, hi>>
    kernel_image,  \* send_kernel: the file read by fs::read
    idx,           \* send_kernel: loop index i of the header / payload loop
    disk,          \* the image file at kernel_path, as fs::metadata saw it
    idleBytes,     \* history: bytes read by the idle drain since the last trigger
    ackRead,       \* history: bytes read from serial during the acknowledgment wait
    hdr,           \* history: header bytes of the session whose write_byte returned Ok
    hdrFlushed,    \* history: the header flush returned Ok
    payload,       \* history: payload bytes of the session whose write_byte returned Ok
    payFlushed,    \* history: the payload flush returned Ok
    sstate,        \* history: state of the transfer session (spec 4.5)
    failure,       \* history: why the process or the session ended
    fwd,           \* history: the interactive event the last step handled: the bytes
                   \* it took from stdin, the byte read() returned and the arguments
                   \* of its write_byte calls
    io,            \* history: the serial-source operation the last step made, its
                   \* outcome, and whether the code reported its byte count
    pending,       \* history: sources reported by the idle wait and not yet serviced
    sk_pending,    \* history: the same for the acknowledgment wait
    echo,          \* history: chars printed by the idle drain since the last trigger
    completed      \* history: a session has reached Done

runVars  == <<num_breaks, events>>
skVars   == <<sk_events, round, res, kernel_size, kernel_image, idx, disk>>
sessHist == <<ackRead, hdr, hdrFlushed, payload, payFlushed, sstate>>
runHist == <<fwd, pending, echo, completed>>
vars == <<pc, num_breaks, events, sk_events, round, res, kernel_size,
          kernel_image, idx, disk, idleBytes, ackRead, hdr, hdrFlushed,
          payload, payFlushed, sstate, failure, fwd, io, pending, sk_pending,
          echo, completed>>

(***************************************************************************)
(* Bounds of the model.                                                    *)
(***************************************************************************)
\* most bytes the idle drain reads between two triggers
MaxIdle == 4
\* most bytes the acknowledgment wait accumulates
MaxAck == 3
\* most payload bytes of one session the model follows
MaxStream == 2

(***************************************************************************)
(* Program constants.                                                      *)
(***************************************************************************)
SERIAL_TOKEN == 0
STDIN_TOKEN == 1
\* the in-band signal byte (byte == 3)
BREAK_BYTE == 3
\* num_breaks == 3
BREAKS_TO_TRIGGER == 3
\* for _ in 0..2
POLL_ROUNDS == 2
\* vec!['O' as u8, 'K' as u8]
OK_BYTES == <<79, 75>>
\* std::u32::MAX
U32_MAX == <<65535, 65535>>

(***************************************************************************)
(* Inputs of the environment.                                              *)
(***************************************************************************)
\* byte values the remote device sends
SerialBytes == {0, 3, 75, 79}
\* byte values typed at the interactive source
StdinBytes == {3, 65, 233}
\* image files: the u64 length and the seed of the contents
Lengths == { <<0, 0, 0, 0>>,          \* 0
             <<1, 0, 0, 0>>,          \* 1
             <<2, 0, 0, 0>>,          \* 2
             <<1024, 0, 0, 0>>,       \* 1024
             <<513, 1027, 0, 0>>,     \* 0x04030201
             <<65534, 65535, 0, 0>>,  \* 2^32 - 2
             <<65535, 65535, 0, 0>>,  \* 2^32 - 1
             <<0, 0, 1, 0>>,          \* 2^32
             <<1, 0, 1, 0>> }         \* 2^32 + 1
Images == [len : Lengths, seed : {255}]
\* what fs::read can find at kernel_path: the file may have been rewritten
ChangedImages == [len : Lengths, seed : {255, 16}]
NoImage == [len |-> <<0, 0, 0, 0>>, seed |-> 0]
\* the byte at offset i of image f
FileByte(f, i) == (f.seed + i) % 256

\* what the multiplexer can report: the ready tokens, in iteration order
ReadySets == { <<>>, <<SERIAL_TOKEN>>, <<STDIN_TOKEN>>,
               <<SERIAL_TOKEN, STDIN_TOKEN>>, <<STDIN_TOKEN, SERIAL_TOKEN>> }
\* outcomes of SerialDevice::read_byte
ReadResults == [kind : {"byte"}, b : SerialBytes]
                 \cup { [kind |-> "wouldblock", b |-> 0], [kind |-> "err", b |-> 0] }
\* outcomes of SerialDevice::write_byte: Ok(1), Ok(0), Err(WouldBlock), Err(other)
WriteResults == {"ok", "short", "wouldblock", "err"}
\* outcomes of flush, fs::metadata, fs::read, poll
CallResults == {"ok", "err"}
\* outcomes of StdinDevice::read's underlying read: an error, or the bytes it got
StdinReads == { <<>> } \cup { <<a>> : a \in StdinBytes }
                 \cup { <<a, b>> : a \in StdinBytes, b \in StdinBytes }

(***************************************************************************)
(* Pure helpers, computed as the code computes them.                       *)
(***************************************************************************)
Pow2(n) == IF n = 0 THEN 1 ELSE IF n = 1 THEN 2 ELSE IF n = 2 THEN 4
           ELSE IF n = 3 THEN 8 ELSE IF n = 4 THEN 16 ELSE IF n = 5 THEN 32
           ELSE IF n = 6 THEN 64 ELSE IF n = 7 THEN 128 ELSE IF n = 8 THEN 256
           ELSE IF n = 9 THEN 512 ELSE IF n = 10 THEN 1024 ELSE IF n = 11 THEN 2048
           ELSE IF n = 12 THEN 4096 ELSE IF n = 13 THEN 8192 ELSE IF n = 14 THEN 16384
           ELSE IF n = 15 THEN 32768 ELSE 65536

\* `len() as u32`: the low 32 bits of the u64
AsU32(len) == <<len[1], len[2]>>

\* std::u32::MAX > kernel_size
U32Gt(a, b) == a[2] > b[2] \/ (a[2] = b[2] /\ a[1] > b[1])

\* x >> s on a u32, 0 <= s < 32
Shr32(x, s) ==
    IF s >= 16
    THEN <<x[2] \div Pow2(s - 16), 0>>
    ELSE <<(x[1] \div Pow2(s)) + (x[2] % Pow2(s)) * Pow2(16 - s), x[2] \div Pow2(s)>>

\* x & 0xff on a u32
And255(x) == <<x[1] % 256, 0>>

\* `as u8` of a u32
U32AsU8(x) == x[1] % 256

\* ((kernel_size >> 8 * i) & 0xff) as u8
HeaderByteBigEndian(ks, i) == U32AsU8(And255(Shr32(ks, 8 * (3 - i))))
HeaderByte(ks, i) == U32AsU8(And255(Shr32(ks, 8 * i)))

\* `i < kernel_size` for the loop index i of 0..kernel_size
IdxBelowOrEqual(i, ks) == ks[2] > 0 \/ i <= ks[1]
IdxBelow(i, ks) == ks[2] > 0 \/ i < ks[1]

\* `i` is a valid index of the image read from f
InImage(i, f) == f.len[4] > 0 \/ f.len[3] > 0 \/ f.len[2] > 0 \/ i < f.len[1]

\* res == vec!['O' as u8, 'K' as u8]
AckMatchesPrefix(r) == Len(r) >= 2 /\ SubSeq(r, 1, 2) = OK_BYTES
AckMatchesAnyOrder(r) == Len(r) = 2 /\ {r[1], r[2]} = {79, 75}
AckMatches(r) == r = OK_BYTES

\* if byte == 3 { num_breaks += 1; }
CountBreakConsecutive(n, byte) == IF byte = BREAK_BYTE THEN n + 1 ELSE 0
CountBreak(n, byte) == IF byte = BREAK_BYTE THEN n + 1 ELSE n

\* if num_breaks == 3
TriggerFires(n) == n = BREAKS_TO_TRIGGER

\* num_breaks = 0
BreaksKept(n) == n
BreaksAfterTrigger(n) == 0

\* Err(ref e) if e.kind() == io::ErrorKind::WouldBlock
IsAnyError(o) == o.kind # "byte"
IsWouldBlock(o) == o.kind = "wouldblock"

\* for event in &events: the events left after the current one
RemainingNone(evs) == <<>>
Remaining(evs) == Tail(evs)

\* for _ in 0..2: another polling round follows round r - 1
MoreRoundsNever(r) == FALSE
MoreRounds(r) == r < POLL_ROUNDS

\* res.push(byte)
PushAckUnlessBreak(r, b) == IF b = BREAK_BYTE THEN r ELSE Append(r, b)
PushAck(r, b) == Append(r, b)

\* `continue` after send_kernel returned Ok: the position run resumes at
ResumeAtDispatch == "dispatch"
ResumeAfterTransfer == "drain"

\* `buffer[0] as char`, a char being its code point
U8AsChar(b) == b
\* `byte as u8` of a char: the low 8 bits of the code point
CharAsAscii(c) == c % 128
CharAsU8(c) == c % 256

\* StdinDevice::read: buffer = [0u8, 1], read(&mut buffer), buffer[0] as char
StdinBuffer(got) == IF Len(got) = 0 THEN <<0, 1>>
                    ELSE IF Len(got) = 1 THEN <<got[1], 1>> ELSE got
StdinReadValue(got) == U8AsChar(StdinBuffer(got)[1])

\* print!("{}", byte as char)
EchoByte(out, byte) == Append(out, U8AsChar(byte))

\* the tokens of a list of events
Tokens(evs) == { evs[k] : k \in 1..Len(evs) }

(***************************************************************************)
(* Initial state: run has registered both sources (main.rs:60-69).         *)
(***************************************************************************)
NoFwd == [done |-> FALSE, consumed |-> <<>>, byte |-> 0, writes |-> <<>>]
NoIo == [op |-> "none", result |-> "none", reported |-> FALSE]
Io(op, result) == [op |-> op, result |-> result, reported |-> FALSE]

Init ==
    /\ pc = "poll"
    /\ num_breaks = 0
    /\ events = <<>>
    /\ sk_events = <<>>
    /\ round = 0
    /\ res = <<>>
    /\ kernel_size = <<0, 0>>
    /\ kernel_image = NoImage
    /\ idx = 0
    /\ disk = NoImage
    /\ idleBytes = <<>>
    /\ ackRead = <<>>
    /\ hdr = <<>>
    /\ hdrFlushed = FALSE
    /\ payload = <<>>
    /\ payFlushed = FALSE
    /\ sstate = "Idle"
    /\ failure = "none"
    /\ fwd = NoFwd
    /\ io = NoIo
    /\ pending = {}
    /\ sk_pending = {}
    /\ echo = <<>>
    /\ completed = FALSE

\* an Err leaves run through `?`: main returns it and the process ends
Exit(why) == pc' = "exit" /\ failure' = why

\* the error kind a failed write_byte leaves with
WriteFailure(w) == IF w = "wouldblock" THEN "wouldblock" ELSE "io"

(***************************************************************************)
(* run: the idle loop (main.rs:70-111).                                    *)
(***************************************************************************)
\* poll.poll(&mut events, None)?
Poll ==
    /\ pc = "poll"
    /\ \E r \in CallResults, ready \in ReadySets :
         IF r = "err"
         THEN Exit("multiplex") /\ UNCHANGED <<events, pending>>
         ELSE /\ pc' = "dispatch"
              /\ events' = ready
              /\ pending' = Tokens(ready)
              /\ UNCHANGED failure
    /\ fwd' = NoFwd
    /\ io' = NoIo
    /\ UNCHANGED <<num_breaks, skVars, idleBytes, sessHist, sk_pending, echo,
                   completed>>

\* for event in &events: every event handled, back to the wait
EndEvents ==
    /\ pc = "dispatch"
    /\ events = <<>>
    /\ pc' = "poll"
    /\ fwd' = NoFwd
    /\ io' = NoIo
    /\ UNCHANGED <<runVars, skVars, idleBytes, sessHist, failure, pending,
                   sk_pending, echo, completed>>

\* SERIAL_TOKEN => loop { ... }
SerialEvent ==
    /\ pc = "dispatch"
    /\ events # <<>>
    /\ Head(events) = SERIAL_TOKEN
    /\ pc' = "drain"
    /\ events' = Remaining(events)
    /\ fwd' = NoFwd
    /\ io' = NoIo
    /\ UNCHANGED <<num_breaks, skVars, idleBytes, sessHist, failure, pending,
                   sk_pending, echo, completed>>

\* one pass of the drain loop: read_byte, count, trigger check, echo
ReadByte ==
    /\ pc = "drain"
    /\ \E o \in ReadResults :
         /\ o.kind = "byte" => Len(idleBytes) < MaxIdle
         /\ io' = Io("read", o.kind)
         /\ IF IsWouldBlock(o)
            THEN /\ pc' = "dispatch"
                 /\ pending' = pending \ {SERIAL_TOKEN}
                 /\ UNCHANGED <<num_breaks, idleBytes, echo, failure>>
            ELSE IF o.kind = "err"
            THEN Exit("io") /\ UNCHANGED <<num_breaks, idleBytes, echo, pending>>
            ELSE /\ num_breaks' = CountBreak(num_breaks, o.b)
                 /\ idleBytes' = Append(idleBytes, o.b)
                 /\ IF TriggerFires(num_breaks')
                    THEN pc' = "trigger" /\ UNCHANGED echo
                    ELSE pc' = "drain" /\ echo' = EchoByte(echo, o.b)
                 /\ UNCHANGED <<failure, pending>>
    /\ UNCHANGED <<events, skVars, sessHist, fwd, sk_pending, completed>>

\* the body of `if num_breaks == 3` up to the call of send_kernel; the pass
\* leaves it by `continue` or by an Err, never by the print! of main.rs:94
Trigger ==
    /\ pc = "trigger"
    /\ \E r \in CallResults :
         IF r = "err"
         THEN Exit("io") /\ UNCHANGED <<num_breaks, idleBytes, echo>>
         ELSE /\ num_breaks' = BreaksAfterTrigger(num_breaks)
              /\ idleBytes' = <<>>
              /\ echo' = <<>>
              /\ pc' = "sk_meta"
              /\ UNCHANGED failure
    /\ io' = NoIo
    /\ UNCHANGED <<events, skVars, sessHist, fwd, pending, sk_pending, completed>>

\* STDIN_TOKEN => { stdin_device.read()?; ...; serial_device.write_byte(..)? }
Forward ==
    /\ pc = "dispatch"
    /\ events # <<>>
    /\ Head(events) = STDIN_TOKEN
    /\ events' = Remaining(events)
    /\ \E r \in CallResults, got \in StdinReads, w \in WriteResults :
         IF r = "err"
         THEN Exit("io") /\ fwd' = NoFwd /\ io' = NoIo /\ UNCHANGED pending
         ELSE LET byte == StdinReadValue(got) IN
              /\ pending' = pending \ {STDIN_TOKEN}
              /\ IF byte = U8AsChar(BREAK_BYTE)
                 THEN /\ fwd' = [done |-> TRUE, consumed |-> got, byte |-> byte,
                                 writes |-> <<>>]
                      /\ io' = NoIo
                      /\ pc' = "dispatch"
                      /\ UNCHANGED failure
                 ELSE /\ fwd' = [done |-> TRUE, consumed |-> got, byte |-> byte,
                                 writes |-> <<CharAsU8(byte)>>]
                      /\ io' = [op |-> "write", result |-> w,
                                reported |-> (w = "short")]
                      /\ IF w \in {"ok", "short"}
                         THEN pc' = "dispatch" /\ UNCHANGED failure
                         ELSE Exit(WriteFailure(w))
    /\ UNCHANGED <<num_breaks, skVars, idleBytes, sessHist, sk_pending, echo,
                   completed>>

(***************************************************************************)
(* send_kernel (main.rs:119-180), called from the drain loop at main.rs:91.*)
(* Its Err leaves run through the `?` of the call.                         *)
(***************************************************************************)
SessionFail(why) == Exit(why) /\ sstate' = "Failed"

\* fs::metadata(kernel_path)?.len() as u32; assert!(std::u32::MAX > kernel_size)
SkMeta ==
    /\ pc = "sk_meta"
    /\ \E r \in CallResults, f \in Images :
         IF r = "err"
         THEN SessionFail("fs") /\ UNCHANGED <<disk, kernel_size, idx>>
         ELSE /\ disk' = f
              /\ kernel_size' = AsU32(f.len)
              /\ IF U32Gt(U32_MAX, kernel_size')
                 THEN pc' = "sk_hdr" /\ idx' = 0 /\ UNCHANGED <<failure, sstate>>
                 ELSE SessionFail("too_large") /\ UNCHANGED idx
    /\ io' = NoIo
    /\ UNCHANGED <<runVars, sk_events, round, res, kernel_image, idleBytes,
                   ackRead, hdr, hdrFlushed, payload, payFlushed, runHist,
                   sk_pending>>

\* for i in 0..=3 { serial_device.write_byte(s)?; }: the count it returns is
\* dropped
SkHeader ==
    /\ pc = "sk_hdr"
    /\ \E w \in WriteResults :
         /\ io' = Io("write", w)
         /\ IF w \in {"ok", "short"}
            THEN /\ hdr' = Append(hdr, HeaderByte(kernel_size, idx))
                 /\ idx' = idx + 1
                 /\ pc' = IF idx' <= 3 THEN "sk_hdr" ELSE "sk_flush"
                 /\ UNCHANGED <<failure, sstate>>
            ELSE SessionFail(WriteFailure(w)) /\ UNCHANGED <<hdr, idx>>
    /\ UNCHANGED <<runVars, sk_events, round, res, kernel_size, kernel_image, disk,
                   idleBytes, ackRead, hdrFlushed, payload, payFlushed, runHist,
                   sk_pending>>

\* serial_device.flush()?
SkHeaderFlush ==
    /\ pc = "sk_flush"
    /\ \E r \in CallResults :
         /\ io' = Io("flush", r)
         /\ IF r = "err"
            THEN SessionFail("io") /\ UNCHANGED <<hdrFlushed, round>>
            ELSE /\ hdrFlushed' = TRUE
                 /\ round' = 0
                 /\ pc' = "sk_poll"
                 /\ sstate' = "HeaderSent"
                 /\ UNCHANGED failure
    /\ UNCHANGED <<runVars, sk_events, res, kernel_size, kernel_image, idx, disk,
                   idleBytes, ackRead, hdr, payload, payFlushed, runHist,
                   sk_pending>>

\* poll.poll(&mut events, Some(Duration::from_secs(2)))?
SkPoll ==
    /\ pc = "sk_poll"
    /\ \E r \in CallResults, ready \in ReadySets :
         IF r = "err"
         THEN SessionFail("multiplex") /\ UNCHANGED <<sk_events, sk_pending>>
         ELSE /\ sk_events' = ready
              /\ sk_pending' = Tokens(ready)
              /\ pc' = "sk_disp"
              /\ sstate' = "AwaitingAck"
              /\ UNCHANGED failure
    /\ io' = NoIo
    /\ UNCHANGED <<runVars, round, res, kernel_size, kernel_image, idx, disk,
                   idleBytes, ackRead, hdr, hdrFlushed, payload, payFlushed,
                   runHist>>

\* SERIAL_TOKEN => loop { ... }
SkSerialEvent ==
    /\ pc = "sk_disp"
    /\ sk_events # <<>>
    /\ Head(sk_events) = SERIAL_TOKEN
    /\ sk_events' = Remaining(sk_events)
    /\ pc' = "sk_drain"
    /\ io' = NoIo
    /\ UNCHANGED <<runVars, round, res, kernel_size, kernel_image, idx, disk,
                   idleBytes, sessHist, failure, runHist, sk_pending>>

\* Token(_) => continue: the source is left as it is
SkOtherEvent ==
    /\ pc = "sk_disp"
    /\ sk_events # <<>>
    /\ Head(sk_events) # SERIAL_TOKEN
    /\ sk_events' = Remaining(sk_events)
    /\ io' = NoIo
    /\ UNCHANGED <<pc, runVars, round, res, kernel_size, kernel_image, idx, disk,
                   idleBytes, sessHist, failure, runHist, sk_pending>>

\* one pass of the acknowledgment drain: res.push(read_byte) or break
SkDrain ==
    /\ pc = "sk_drain"
    /\ \E o \in ReadResults :
         /\ o.kind = "byte" => Len(res) < MaxAck
         /\ io' = Io("read", o.kind)
         /\ IF IsWouldBlock(o)
            THEN /\ pc' = "sk_disp"
                 /\ sk_pending' = sk_pending \ {SERIAL_TOKEN}
                 /\ UNCHANGED <<res, ackRead, failure, sstate>>
            ELSE IF o.kind = "err"
            THEN SessionFail("io") /\ UNCHANGED <<res, ackRead, sk_pending>>
            ELSE /\ res' = PushAck(res, o.b)
                 /\ ackRead' = Append(ackRead, o.b)
                 /\ UNCHANGED <<pc, failure, sstate, sk_pending>>
    /\ UNCHANGED <<runVars, sk_events, round, kernel_size, kernel_image, idx, disk,
                   idleBytes, hdr, hdrFlushed, payload, payFlushed, runHist>>

\* the end of a polling round: if res == "OK" { break; }, else the next round
SkRoundEnd ==
    /\ pc = "sk_disp"
    /\ sk_events = <<>>
    /\ IF AckMatches(res)
       THEN pc' = "sk_final" /\ UNCHANGED round
       ELSE /\ round' = round + 1
            /\ pc' = IF MoreRounds(round') THEN "sk_poll" ELSE "sk_final"
    /\ sk_pending' = IF pc' = "sk_poll" THEN sk_pending ELSE {}
    /\ io' = NoIo
    /\ UNCHANGED <<runVars, sk_events, res, kernel_size, kernel_image, idx, disk,
                   idleBytes, sessHist, failure, runHist>>

\* if res != "OK" { return Err(anyhow!("Didn't receive OK")); }
SkFinal ==
    /\ pc = "sk_final"
    /\ IF AckMatches(res)
       THEN pc' = "sk_read" /\ sstate' = "Streaming" /\ UNCHANGED failure
       ELSE SessionFail("handshake")
    /\ io' = NoIo
    /\ UNCHANGED <<runVars, skVars, idleBytes, ackRead, hdr, hdrFlushed, payload,
                   payFlushed, runHist, sk_pending>>

\* let kernel_image = fs::read(kernel_path)?: the file as it is by now
SkRead ==
    /\ pc = "sk_read"
    /\ \E r \in CallResults, f \in ChangedImages :
         IF r = "err"
         THEN SessionFail("fs") /\ UNCHANGED <<kernel_image, idx>>
         ELSE /\ kernel_image' = f
              /\ idx' = 0
              /\ pc' = "sk_stream"
              /\ UNCHANGED <<failure, sstate>>
    /\ io' = NoIo
    /\ UNCHANGED <<runVars, sk_events, round, res, kernel_size, disk, idleBytes,
                   ackRead, hdr, hdrFlushed, payload, payFlushed, runHist,
                   sk_pending>>

\* for i in 0..kernel_size { serial_device.write_byte(kernel_image[i as usize])?; }
\* an index past the end of the Vec panics; the count write_byte returns is dropped
SkStream ==
    /\ pc = "sk_stream"
    /\ IdxBelow(idx, kernel_size)
    /\ Len(payload) < MaxStream
    /\ IF ~InImage(idx, kernel_image)
       THEN SessionFail("panic") /\ io' = NoIo /\ UNCHANGED <<payload, idx>>
       ELSE \E w \in WriteResults :
              /\ io' = Io("write", w)
              /\ IF w \in {"ok", "short"}
                 THEN /\ payload' = Append(payload, FileByte(kernel_image, idx))
                      /\ idx' = idx + 1
                      /\ UNCHANGED <<pc, failure, sstate>>
                 ELSE SessionFail(WriteFailure(w)) /\ UNCHANGED <<payload, idx>>
    /\ UNCHANGED <<runVars, sk_events, round, res, kernel_size, kernel_image, disk,
                   idleBytes, ackRead, hdr, hdrFlushed, payFlushed, runHist,
                   sk_pending>>

\* serial_device.flush()?; stdout().flush()?; Ok(())
SkStreamEnd ==
    /\ pc = "sk_stream"
    /\ ~IdxBelow(idx, kernel_size)
    /\ \E r \in CallResults, out \in CallResults :
         /\ payFlushed' = (r = "ok")
         /\ io' = Io("flush", r)
         /\ IF r = "ok" /\ out = "ok"
            THEN pc' = "sk_ret" /\ sstate' = "Done" /\ UNCHANGED failure
            ELSE SessionFail("io")
    /\ UNCHANGED <<runVars, skVars, idleBytes, ackRead, hdr, hdrFlushed, payload,
                   runHist, sk_pending>>

\* send_kernel returned Ok: `continue` resumes the drain loop of run
SkReturn ==
    /\ pc = "sk_ret"
    /\ pc' = ResumeAfterTransfer
    /\ sk_events' = <<>>
    /\ round' = 0
    /\ res' = <<>>
    /\ kernel_size' = <<0, 0>>
    /\ kernel_image' = NoImage
    /\ idx' = 0
    /\ disk' = NoImage
    /\ ackRead' = <<>>
    /\ hdr' = <<>>
    /\ hdrFlushed' = FALSE
    /\ payload' = <<>>
    /\ payFlushed' = FALSE
    /\ sstate' = "Idle"
    /\ io' = NoIo
    /\ completed' = TRUE
    /\ UNCHANGED <<runVars, idleBytes, failure, fwd, pending, sk_pending, echo>>

Next ==
    \/ Poll \/ EndEvents \/ SerialEvent \/ ReadByte \/ Trigger \/ Forward
    \/ SkMeta \/ SkHeader \/ SkHeaderFlush \/ SkPoll \/ SkSerialEvent
    \/ SkOtherEvent \/ SkDrain \/ SkRoundEnd \/ SkFinal \/ SkRead \/ SkStream
    \/ SkStreamEnd \/ SkReturn

Spec == Init /\ [][Next]_vars

\* run is the only thread of the process: while a step is possible, one is taken
FairSpec == Spec /\ WF_vars(Next)

(***************************************************************************)
(* Vocabulary of the properties.                                           *)
(***************************************************************************)
RECURSIVE CountOf(_, _)
\* how many elements of the sequence q equal b
CountOf(q, b) ==
    IF q = <<>> THEN 0
    ELSE (IF Head(q) = b THEN 1 ELSE 0) + CountOf(Tail(q), b)

RECURSIVE Without(_, _)
\* the sequence q with every element equal to b left out
Without(q, b) ==
    IF q = <<>> THEN <<>>
    ELSE IF Head(q) = b THEN Without(Tail(q), b)
    ELSE <<Head(q)>> \o Without(Tail(q), b)

\* the image length is strictly below the maximum 32-bit unsigned value
FitsHeader(len) ==
    /\ len[3] = 0
    /\ len[4] = 0
    /\ ~(len[1] = 65535 /\ len[2] = 65535)

\* four bytes read as a little-endian unsigned 32-bit value, as a u64
DecodeLE(q) == <<q[1] + 256 * q[2], q[3] + 256 * q[4], 0, 0>>

\* positions of send_kernel past the header flush
AfterHeader == {"sk_poll", "sk_disp", "sk_drain", "sk_final", "sk_read",
                "sk_stream", "sk_ret"}
\* positions of the idle loop of run
IdlePositions == {"poll", "dispatch", "drain"}

(***************************************************************************)
(* C1: no payload byte is written unless the acknowledgment buffer equals  *)
(* exactly 0x4F,0x4B, and a session whose handshake failed has written     *)
(* exactly 0 payload bytes.                                                *)
(***************************************************************************)
C1_NoSendWithoutAck ==
    /\ payload # <<>> => res = <<79, 75>>
    /\ pc \in {"sk_read", "sk_stream", "sk_ret"} => res = <<79, 75>>
    /\ failure = "handshake" => Len(payload) = 0

C1_Witness ==
    /\ failure = "handshake"
    /\ hdrFlushed
    /\ res = <<79, 75, 0>>
    /\ payload = <<>>

(***************************************************************************)
(* C2: the handshake succeeds if and only if all the bytes read from the   *)
(* serial source during the acknowledgment wait, over all polling rounds,  *)
(* are exactly 0x4F,0x4B; 0x4F alone, 0x4B,0x4F, 0x4F,0x4B,0x00 and        *)
(* nothing at all end in failure.                                          *)
(***************************************************************************)
C2_AckExactness ==
    /\ sstate \in {"Streaming", "Done"} => ackRead = <<79, 75>>
    /\ failure = "handshake" => ackRead # <<79, 75>>
    /\ (pc \notin {"sk_poll", "sk_disp", "sk_drain", "sk_final"}
          /\ ackRead \in {<<79>>, <<75, 79>>, <<79, 75, 0>>}) => sstate = "Failed"
    /\ (pc = "exit" /\ hdrFlushed /\ round = POLL_ROUNDS /\ ackRead = <<>>)
          => failure = "handshake"

C2_Witness ==
    /\ sstate = "Streaming"
    /\ round = 1
    /\ ackRead = <<79, 75>>

(***************************************************************************)
(* C3: a protocol error (handshake failure, image too large) does not end  *)
(* the process.                                                            *)
(***************************************************************************)
C3_ProtocolErrorKeepsRunning ==
    failure \in {"handshake", "too_large"} => pc # "exit"

(***************************************************************************)
(* C4: the trigger fires exactly when the byte just read by the idle drain *)
(* is the third 0x03 read since the last trigger, whatever other bytes,    *)
(* wake-ups and interactive events lie between them.                       *)
(***************************************************************************)
C4_TriggerOnThirdBreak ==
    /\ pc = "trigger" =>
         /\ idleBytes # <<>>
         /\ idleBytes[Len(idleBytes)] = 3
         /\ CountOf(idleBytes, 3) = 3
    /\ pc \in IdlePositions => CountOf(idleBytes, 3) < 3

C4_Witness ==
    /\ pc = "trigger"
    /\ Len(idleBytes) = 4
    /\ idleBytes[2] # 3

(***************************************************************************)
(* C5: num_breaks is 0, 1 or 2 whenever a byte is about to be read by the  *)
(* idle drain and at every multiplexer wait, and it is 0 when send_kernel  *)
(* is entered and when it returns.                                         *)
(***************************************************************************)
C5_BreakCounterRange ==
    /\ pc \in {"drain", "poll", "sk_poll"} => num_breaks \in {0, 1, 2}
    /\ pc \in {"sk_meta", "sk_ret"} => num_breaks = 0

C5_Witness ==
    /\ pc = "sk_ret"
    /\ sstate = "Done"
    /\ num_breaks = 0

(***************************************************************************)
(* C6: for an image length L < 2^32-1 the session writes exactly the four  *)
(* bytes of L, least significant first, once, and flushes them before any  *)
(* acknowledgment byte is read; read back as a little-endian 32-bit value  *)
(* they give L (1024 gives 0x00,0x04,0x00,0x00).                           *)
(***************************************************************************)
C6_HeaderLittleEndian ==
    (sstate # "Idle" /\ FitsHeader(disk.len)) =>
       /\ Len(hdr) <= 4
       /\ hdr # <<>> => hdr[1] = disk.len[1] % 256
       /\ Len(hdr) >= 2 => hdr[2] = (disk.len[1] \div 256) % 256
       /\ Len(hdr) >= 3 => hdr[3] = disk.len[2] % 256
       /\ Len(hdr) = 4 => hdr[4] = (disk.len[2] \div 256) % 256
       /\ Len(hdr) = 4 => DecodeLE(hdr) = disk.len
       /\ hdrFlushed => Len(hdr) = 4
       /\ pc \in AfterHeader => hdrFlushed
       /\ ackRead # <<>> => hdrFlushed
       /\ (hdrFlushed /\ disk.len = <<1024, 0, 0, 0>>) => hdr = <<0, 4, 0, 0>>

C6_Witness ==
    /\ disk.len = <<65534, 65535, 0, 0>>
    /\ hdr = <<254, 255, 255, 255>>
    /\ hdrFlushed
    /\ ackRead # <<>>

(***************************************************************************)
(* C7: for an image of 2^32-1 bytes or more the session writes no header   *)
(* byte and no payload byte.                                               *)
(***************************************************************************)
C7_TooLargeSendsNothing ==
    (sstate # "Idle" /\ ~FitsHeader(disk.len)) => (hdr = <<>> /\ payload = <<>>)

(***************************************************************************)
(* C8: a session that reaches Done has written, after the header, exactly  *)
(* the contents of the image file, in file order, and flushed them.        *)
(***************************************************************************)
C8_PayloadIsImage ==
    sstate = "Done" =>
       /\ disk.len[2] = 0 /\ disk.len[3] = 0 /\ disk.len[4] = 0
       /\ Len(payload) = disk.len[1]
       /\ \A k \in 1..Len(payload) : payload[k] = FileByte(disk, k - 1)
       /\ payFlushed

(***************************************************************************)
(* C9: every byte other than 0x03 that an interactive event takes from the *)
(* interactive source is passed to exactly one write_byte call, unchanged, *)
(* and the event makes no other serial write.                              *)
(***************************************************************************)
C9_ForwardingIdentity ==
    (fwd.done /\ fwd.consumed # <<>> /\ failure = "none")
       => fwd.writes = Without(fwd.consumed, 3)

(***************************************************************************)
(* C10: no would-block outcome of a byte-source operation ends the process *)
(* or fails the transfer.                                                  *)
(***************************************************************************)
C10_WouldBlockNeverFatal ==
    failure # "wouldblock"

\* C11: a serial-source operation (read_byte, write_byte, flush) that returned a
\* terminal error, in the idle drain, the forwarding path or anywhere in
\* send_kernel, ends the process with that error; an ended process takes no
\* further step: no wait, no read, no write.
C11_SerialErrorIsFatal ==
    /\ io.result = "err" => (pc = "exit" /\ failure = "io")
    /\ pc = "exit" => ~ENABLED Next

\* a read_byte of the acknowledgment wait failed and the process has ended
C11_Witness ==
    /\ io = Io("read", "err")
    /\ hdrFlushed
    /\ pc = "exit"
    /\ sstate = "Failed"

\* the positions of the acknowledgment wait
AckWait == {"sk_poll", "sk_disp", "sk_drain"}

\* the wait polls only in rounds 0 and 1, gives up only after both rounds, and
\* is left for Streaming or Failed
C12_Rounds ==
    /\ pc \in AckWait => (round < POLL_ROUNDS /\ sstate \in {"HeaderSent", "AwaitingAck"})
    /\ pc = "sk_final" => (AckMatches(res) \/ round = POLL_ROUNDS)
    /\ failure = "handshake" => (round = POLL_ROUNDS /\ sstate = "Failed")
    /\ pc \in {"sk_read", "sk_stream"} => sstate = "Streaming"

\* C12: the acknowledgment wait makes at most two polling rounds, makes the
\* second whenever the first ends without the buffer being "OK", declares the
\* handshake failed only after both, and always ends with the session
\* Streaming or Failed, whichever sources each round reported.
C12_AckWaitTerminates ==
    /\ []C12_Rounds
    /\ (pc \in AckWait) ~> (sstate \in {"Streaming", "Failed"})

\* the second round ended without "OK" after the interactive source woke the
\* first: the handshake has failed
C12_Witness ==
    /\ failure = "handshake"
    /\ round = POLL_ROUNDS
    /\ res = <<79>>
    /\ sstate = "Failed"

\* C13 as stated: at every wait of the multiplexer, of the idle loop and of
\* the acknowledgment wait alike, every source the previous wake-up of that
\* loop reported has been serviced.
C13_EveryReadySourceServiced ==
    /\ pc = "poll" => pending = {}
    /\ pc = "sk_poll" => sk_pending = {}

\* C13, amended: when the idle loop waits again, every source its previous
\* wake-up reported has been serviced (the serial source drained until it
\* would block, the handler of the interactive source run); when the
\* acknowledgment wait polls again, the serial source has been drained, and a
\* reported interactive source is left unserviced.
C13_IdleWakeupsServiced ==
    /\ pc = "poll" => pending = {}
    /\ pc = "sk_poll" => SERIAL_TOKEN \notin sk_pending

\* a wake-up reported both sources: the serial one was drained, the interactive
\* one has just been read and forwarded, and nothing is left to service
C13_Witness ==
    /\ pc = "dispatch"
    /\ events = <<>>
    /\ pending = {}
    /\ fwd.done
    /\ fwd.writes # <<>>
    /\ idleBytes # <<>>
    /\ num_breaks = 0

\* the chars a sequence of bytes shows as
Chars(bytes) == [k \in 1..Len(bytes) |-> U8AsChar(bytes[k])]

\* C14: when a session reaches Done the break counter is 0; run resumes the
\* drain it was in, so the serial event is not left until read_byte would
\* block; the bytes that follow are counted and echoed from zero; and a new
\* trigger takes three further 0x03 bytes and starts a session that sends its
\* own header before it waits for the acknowledgment.
C14_ResumesAfterDone ==
    /\ sstate = "Done" => (pc = "sk_ret" /\ num_breaks = 0 /\ idleBytes = <<>>)
    /\ (completed /\ pc \in {"dispatch", "poll"}) => pending = Tokens(events)
    /\ (completed /\ pc \in IdlePositions) =>
           /\ sstate = "Idle"
           /\ num_breaks = CountOf(idleBytes, BREAK_BYTE)
           /\ echo = Chars(idleBytes)
           /\ hdr = <<>> /\ res = <<>> /\ payload = <<>>
    /\ (completed /\ pc = "trigger") => CountOf(idleBytes, BREAK_BYTE) = BREAKS_TO_TRIGGER
    /\ (completed /\ pc \in AckWait) => (Len(hdr) = 4 /\ hdrFlushed /\ payload = <<>>)

\* after a session that reached Done, three further 0x03 bytes have started a
\* second session, which has sent its header and waits for the acknowledgment
C14_Witness ==
    /\ completed
    /\ pc = "sk_poll"
    /\ Len(hdr) = 4
    /\ res = <<>>

\* C15 as stated: whatever byte value the read of an interactive readiness
\* event returned, 0x03 included, exactly one write_byte of that value was
\* issued.
C15_ForwardsEveryByte ==
    fwd.done => fwd.writes = <<fwd.byte>>

\* C15, amended: for every byte value other than 0x03 that the read of an
\* interactive readiness event returned, exactly one write_byte of that value
\* was issued; for 0x03 no write_byte was issued.
C15_ForwardsAllButBreak ==
    fwd.done =>
        fwd.writes = IF fwd.byte = BREAK_BYTE THEN <<>> ELSE <<fwd.byte>>

\* the byte 0xE9 was read and forwarded as it is
C15_Witness ==
    /\ fwd.done
    /\ fwd.byte = 233
    /\ fwd.writes = <<233>>
    /\ pc = "dispatch"

\* C16: each handling of an interactive readiness event takes exactly one
\* byte from the interactive source.
C16_OneByteConsumedPerEvent ==
    (fwd.done /\ failure = "none") => Len(fwd.consumed) = 1

\* C18: a write_byte on the serial source that returned a count other than 1,
\* in the forwarding path, the header or the payload, was reported, and the
\* process goes on.
C18_ShortWriteReported ==
    (io.op = "write" /\ io.result = "short") => (io.reported /\ pc # "exit")

\* C17: the chars printed by the idle drain are the bytes it has read, signal
\* bytes and the byte that completes the trigger included, in arrival order,
\* each once.
C17_EveryDrainedByteEchoed ==
    echo = Chars(idleBytes)

\* C19: between the header flush and the outcome of the handshake, every byte
\* read from the serial source, 0x03 included, is in the acknowledgment
\* buffer, none is echoed or counted as a break, and no byte is read from the
\* interactive source or written to the serial source, whatever the
\* multiplexer reports.
C19_AckWaitIsolated ==
    pc \in AckWait \cup {"sk_final"} =>
        /\ res = ackRead
        /\ num_breaks = 0
        /\ echo = <<>>
        /\ idleBytes = <<>>
        /\ ~fwd.done
        /\ io.op # "write"

\* a poll of the acknowledgment wait reported both sources: the serial one
\* was drained of a 0x03 and an 'O', the interactive one was passed over
C19_Witness ==
    /\ pc = "sk_disp"
    /\ sk_events = <<>>
    /\ sk_pending = {STDIN_TOKEN}
    /\ res = <<3, 79>>
    /\ io = Io("read", "wouldblock")

\* C20: a session that reaches Done has made as many payload write_byte calls
\* as the length its header encodes, whatever the file was when it was read.
C20_PayloadCountIsHeaderLength ==
    sstate = "Done" =>
        /\ Len(hdr) = 4
        /\ DecodeLE(hdr) = <<Len(payload), 0, 0, 0>>

\* the file had 2 bytes at fs::metadata and 1024 bytes of other contents at
\* fs::read; the session is Done with 2 payload bytes
C20_Witness ==
    /\ sstate = "Done"
    /\ disk.len = <<2, 0, 0, 0>>
    /\ kernel_image = [len |-> <<1024, 0, 0, 0>>, seed |-> 16]
    /\ Len(payload) = 2

=============================================================================
